---- MODULE Spec2Model ----
(***************************************************************************)
(* A model of the sphere-flake ray tracer of src/src/main.rs.              *)
(*                                                                         *)
(* Numbers.  The program computes in f64.  The model computes in fixed     *)
(* point: an integer k stands for the real k / Scale, every product,       *)
(* quotient and square root is rounded to the nearest representable value  *)
(* (as IEEE arithmetic rounds every operation), +infinity is an integer    *)
(* above every finite value, and f64::EPSILON (the gap between 1.0 and the *)
(* next representable number) is one unit.                                 *)
(***************************************************************************)
EXTENDS Integers, Sequences, FiniteSets, TLC

\* ------------------------------------------------------------------ bounds

\* Deepest fractal the model builds (main uses 9).
MaxLevel == 3

\* Largest image side the driver renders (main uses 512).
MaxN == 3

\* Largest supersampling factor (main uses 4).
MaxSS == 2

\* ------------------------------------------------------------- arithmetic

\* The integer that stands for 1.0.
Scale == 1000

\* std::f64::INFINITY: above every finite value, and only ever compared.
INFINITY == 2147483647

\* std::f64::MAX and std::f64::MIN, the seeds of the bounding-box fold.
F64_MAX == 2147483646

F64_MIN == -2147483646

\* std::f64::EPSILON: the gap between 1.0 and the next representable number.
EPSILON == 1

\* a / b rounded to the nearest integer (b > 0).
Rnd(a, b) == (a + b \div 2) \div b

\* f64 multiplication and division.
FMul(a, b) == Rnd(a * b, Scale)

FDiv(a, b) == IF b > 0 THEN Rnd(a * Scale, b) ELSE -Rnd(a * Scale, -b)

\* The largest k in lo..hi with k * k <= n (lo * lo <= n).
RECURSIVE RootSearch(_, _, _)
RootSearch(n, lo, hi) ==
    IF lo >= hi THEN lo
    ELSE LET mid == (lo + hi + 1) \div 2
         IN  IF mid * mid <= n THEN RootSearch(n, mid, hi)
             ELSE RootSearch(n, lo, mid - 1)

\* f64::sqrt of a >= 0: the representable value nearest to the real root.
FSqrt(a) ==
    LET n == a * Scale
        k == RootSearch(n, 0, IF n < 46340 THEN n ELSE 46340)
    IN  IF n - k * k > k THEN k + 1 ELSE k

FMin(a, b) == IF a <= b THEN a ELSE b

FMax(a, b) == IF a >= b THEN a ELSE b

\* ---------------------------------------------------------------- Vector3d

Vector3d(x, y, z) == [x |-> x, y |-> y, z |-> z]

dot(a, b) == FMul(a.x, b.x) + FMul(a.y, b.y) + FMul(a.z, b.z)

length(a) == FSqrt(dot(a, a))

VAdd(a, b) == Vector3d(a.x + b.x, a.y + b.y, a.z + b.z)

VSub(a, b) == Vector3d(a.x - b.x, a.y - b.y, a.z - b.z)

\* Vector3d * f64.
VScale(a, s) == Vector3d(FMul(a.x, s), FMul(a.y, s), FMul(a.z, s))

normalize(a) == VScale(a, FDiv(Scale, length(a)))

VMin(a, b) == Vector3d(FMin(a.x, b.x), FMin(a.y, b.y), FMin(a.z, b.z))

VMax(a, b) == Vector3d(FMax(a.x, b.x), FMax(a.y, b.y), FMax(a.z, b.z))

ZERO == Vector3d(0, 0, 0)

\* ------------------------------------------------------------ Ray, Hit

Ray(orig, dir) == [orig |-> orig, dir |-> dir]

Hit(lambda, normal) == [lambda |-> lambda, normal |-> normal]

\* ---------------------------------------------------------------- Sphere

Sphere(center, radius) ==
    [kind |-> "Sphere", center |-> center, radius |-> radius]

\* ray_sphere returning the far root even when the near one is ahead.
ray_sphere_FarRoot(s, ray) ==
    LET v    == VSub(s.center, ray.orig)
        b    == dot(v, ray.dir)
        disc == FMul(b, b) - dot(v, v) + FMul(s.radius, s.radius)
    IN  IF disc < 0 THEN INFINITY
        ELSE LET t2 == b + FSqrt(disc)
             IN  IF t2 < 0 THEN INFINITY ELSE t2

\* ray_sphere without the test for a sphere behind the origin.
ray_sphere_NoBehindTest(s, ray) ==
    LET v    == VSub(s.center, ray.orig)
        b    == dot(v, ray.dir)
        disc == FMul(b, b) - dot(v, v) + FMul(s.radius, s.radius)
    IN  IF disc < 0 THEN INFINITY
        ELSE LET d  == FSqrt(disc)
                 t1 == b - d
             IN  IF t1 > 0 THEN t1 ELSE b + d

\* ray_sphere taking a zero discriminant (a grazing ray) for a miss.
ray_sphere_GrazeMisses(s, ray) ==
    LET v    == VSub(s.center, ray.orig)
        b    == dot(v, ray.dir)
        disc == FMul(b, b) - dot(v, v) + FMul(s.radius, s.radius)
    IN  IF disc <= 0 THEN INFINITY
        ELSE LET d  == FSqrt(disc)
                 t2 == b + d
             IN  IF t2 < 0 THEN INFINITY
                 ELSE LET t1 == b - d
                      IN  IF t1 > 0 THEN t1 ELSE t2

ray_sphere(s, ray) ==
    LET v    == VSub(s.center, ray.orig)
        b    == dot(v, ray.dir)
        disc == FMul(b, b) - dot(v, v) + FMul(s.radius, s.radius)
    IN  IF disc < 0 THEN INFINITY
        ELSE LET d  == FSqrt(disc)
                 t2 == b + d
             IN  IF t2 < 0 THEN INFINITY
                 ELSE LET t1 == b - d
                      IN  IF t1 > 0 THEN t1 ELSE t2

Sphere_intersect(s, i, ray) ==
    LET l == ray_sphere(s, ray)
    IN  IF l >= i.lambda THEN i
        ELSE LET n == VSub(VAdd(ray.orig, VScale(ray.dir, l)), s.center)
             IN  Hit(l, normalize(n))

\* Sphere::shadow with a strict test of the far root.
Sphere_shadow_Strict(s, ray) ==
    LET v    == VSub(s.center, ray.orig)
        b    == dot(v, ray.dir)
        disc == FMul(b, b) - dot(v, v) + FMul(s.radius, s.radius)
    IN  IF disc < 0 THEN FALSE
        ELSE b + FSqrt(disc) > 0

Sphere_shadow(s, ray) ==
    LET v    == VSub(s.center, ray.orig)
        b    == dot(v, ray.dir)
        disc == FMul(b, b) - dot(v, v) + FMul(s.radius, s.radius)
    IN  IF disc < 0 THEN FALSE
        ELSE b + FSqrt(disc) >= 0

Sphere_bounding_box(s) ==
    LET r == Vector3d(s.radius, s.radius, s.radius)
    IN  <<VSub(s.center, r), VAdd(s.center, r)>>

\* ----------------------------------------------------------------- Group

RECURSIVE Scene_bounding_box(_)
RECURSIVE Scene_intersect(_, _, _)
RECURSIVE Scene_shadow(_, _)

\* The loop of Group::bounding_box over objects[k..], from the running (min, max).
RECURSIVE BoxFold(_, _, _, _)
BoxFold(objects, k, min, max) ==
    IF k > Len(objects) THEN <<min, max>>
    ELSE LET mm == Scene_bounding_box(objects[k])
         IN  BoxFold(objects, k + 1, VMin(min, mm[1]), VMax(max, mm[2]))

\* Group::bounding_box leaving out the first object.
Group_bounding_box_SkipFirst(objects) ==
    BoxFold(objects, 2,
            Vector3d(F64_MAX, F64_MAX, F64_MAX),
            Vector3d(F64_MIN, F64_MIN, F64_MIN))

Group_bounding_box(objects) ==
    BoxFold(objects, 1,
            Vector3d(F64_MAX, F64_MAX, F64_MAX),
            Vector3d(F64_MIN, F64_MIN, F64_MIN))

Group_new(objects) ==
    LET mm    == Group_bounding_box(objects)
        min   == mm[1]
        max   == mm[2]
        bound == Sphere(VScale(VAdd(min, max), Scale \div 2),
                        FMul(length(VSub(max, min)), Scale \div 2))
    IN  [kind |-> "Group", bound |-> bound, objects |-> objects]

\* The loop of Group::intersect over objects[k..], threading the running hit.
RECURSIVE IntersectFold(_, _, _, _)
IntersectFold(objects, k, out, ray) ==
    IF k > Len(objects) THEN out
    ELSE IntersectFold(objects, k + 1, Scene_intersect(objects[k], out, ray), ray)

\* Group::intersect folding from the sentinel instead of the hit handed in.
Group_intersect_FromSentinel(g, i, ray) ==
    LET l == ray_sphere(g.bound, ray)
    IN  IF l >= i.lambda THEN i
        ELSE IntersectFold(g.objects, 1, Hit(INFINITY, ZERO), ray)

Group_intersect(g, i, ray) ==
    LET l == ray_sphere(g.bound, ray)
    IN  IF l >= i.lambda THEN i
        ELSE IntersectFold(g.objects, 1, i, ray)

Group_shadow(g, ray) ==
    IF Sphere_shadow(g.bound, ray)
    THEN \E k \in 1..Len(g.objects) : Scene_shadow(g.objects[k], ray)
    ELSE FALSE

\* ------------------------------------------------- trait Scene (dispatch)

Scene_intersect(node, i, ray) ==
    IF node.kind = "Sphere" THEN Sphere_intersect(node, i, ray)
    ELSE Group_intersect(node, i, ray)

Scene_shadow(node, ray) ==
    IF node.kind = "Sphere" THEN Sphere_shadow(node, ray)
    ELSE Group_shadow(node, ray)

Scene_bounding_box(node) ==
    IF node.kind = "Sphere" THEN Sphere_bounding_box(node)
    ELSE Group_bounding_box(node.objects)

\* ------------------------------------------------------------- ray_trace

\* ray_trace without the shadow ray.
ray_trace_NoShadow(light, ray, scene) ==
    LET i == Scene_intersect(scene, Hit(INFINITY, ZERO), ray)
    IN  IF i.lambda = INFINITY THEN 0
        ELSE LET g == dot(i.normal, light)
             IN  IF g >= 0 THEN 0 ELSE -g

ray_trace(light, ray, scene) ==
    LET i == Scene_intersect(scene, Hit(INFINITY, ZERO), ray)
    IN  IF i.lambda = INFINITY THEN 0
        ELSE LET g == dot(i.normal, light)
             IN  IF g >= 0 THEN 0
                 ELSE LET o == VAdd(VAdd(ray.orig, VScale(ray.dir, i.lambda)),
                                    VScale(i.normal, FSqrt(EPSILON)))
                          sray == Ray(o, VScale(light, -Scale))
                      IN  IF Scene_shadow(scene, sray) THEN 0 ELSE -g

\* ---------------------------------------------------------------- create

\* The loop stepping by 1: `d += 1`.
RECURSIVE LoopFrom_Step1(_)
LoopFrom_Step1(d) == IF d <= 1 THEN <<d>> \o LoopFrom_Step1(d + 1) ELSE <<>>

\* The values a loop variable takes from d on: `while d <= 1 { ...; d += 2 }`.
RECURSIVE LoopFrom(_)
LoopFrom(d) == IF d <= 1 THEN <<d>> \o LoopFrom(d + 2) ELSE <<>>

\* The (dx, dz) pairs in the order the two while loops visit them:
\* dz from -1 in steps of 2 while dz <= 1, and inside it dx likewise.
ChildOffsets ==
    LET steps == LoopFrom(-1)
    IN  [k \in 1..(Len(steps) * Len(steps)) |->
            [dx |-> steps[((k - 1) % Len(steps)) + 1],
             dz |-> steps[((k - 1) \div Len(steps)) + 1]]]

RECURSIVE create(_, _, _)
create(level, c, r) ==
    LET sphere == Sphere(c, r)
    IN  IF level = 1 THEN sphere
        ELSE LET rn == FDiv(FMul(3 * Scale, r), FSqrt(12 * Scale))
                 child(k) ==
                     create(level - 1,
                            VAdd(c, VScale(Vector3d(ChildOffsets[k].dx * Scale,
                                                    Scale,
                                                    ChildOffsets[k].dz * Scale),
                                           rn)),
                            FMul(r, Scale \div 2))
             IN  Group_new(<<sphere>> \o [k \in 1..Len(ChildOffsets) |-> child(k)])

\* ------------------------------------------------------------------ state

VARIABLES
    level, center, radius,  \* the arguments of create
    scene,                  \* the scene tree create returned (kind "none" before)
    n, ss,                  \* run's image side and supersampling factor
    pc,                     \* where run is: start, sample, write, done
    x, y, dx, dy,           \* run's four loop variables
    g,                      \* run's accumulator of the current pixel
    file,                   \* what was written to image.pgm, in order
    trace,                  \* history: header, rays traced, pixels written
    op,                     \* the function last applied to the scene
    sph, ray, hitIn, light, node,  \* its arguments
    dist, hitOut, shad, color, box \* its result

runVars == <<n, ss, pc, x, y, dx, dy, g, file, trace>>

callVars == <<op, sph, ray, hitIn, light, node, dist, hitOut, shad, color, box>>

vars == <<level, center, radius, scene, runVars, callVars>>

\* --------------------------------------------------------- function calls

\* create's (c, r): the scene of run, and a larger flake about the origin.
Seeds ==
    { <<Vector3d(0, -Scale, 0), Scale>>,
      <<ZERO, 2 * Scale>> }

\* Ray origins: a grid around and inside the flake; it holds run's eye point.
Origins ==
    { Vector3d(ox, oy, oz) :
        ox \in {-3000, -1500, 0},
        oy \in {-1000, -500, 0},
        oz \in {-4000, -1500, 0, 3000} }

\* Unit directions, each of length exactly 1 in the model's arithmetic.
Dirs ==
    { Vector3d(1000, 0, 0), Vector3d(-1000, 0, 0),
      Vector3d(0, 1000, 0), Vector3d(0, -1000, 0),
      Vector3d(0, 0, 1000), Vector3d(0, 0, -1000),
      Vector3d(600, 0, 800), Vector3d(800, 0, 600),
      Vector3d(800, -600, 0), Vector3d(0, 600, -800),
      Vector3d(-600, 0, -800), Vector3d(360, 480, 800) }

\* Running best hits handed to intersect: the sentinel and two finite ones.
HitsIn ==
    { Hit(INFINITY, ZERO),
      Hit(1000, Vector3d(0, 0, -1000)),
      Hit(3000, Vector3d(0, 1000, 0)) }

\* Light directions: run's light and the axis lights of the scenarios.
Lights ==
    { normalize(Vector3d(-1000, -3000, 2000)),
      Vector3d(0, 0, 1000), Vector3d(0, 0, -1000),
      Vector3d(0, -1000, 0) }

\* The spheres ray_sphere is applied to: the central sphere and the bound.
TestSpheres(sc) ==
    IF sc.kind = "Sphere" THEN {sc} ELSE {sc.objects[1], sc.bound}

\* Every node of a tree: the tree and the nodes of its children.
RECURSIVE Nodes(_)
Nodes(t) ==
    IF t.kind = "Sphere" THEN {t}
    ELSE {t} \cup UNION {Nodes(t.objects[k]) : k \in 1..Len(t.objects)}

NoCall ==
    /\ op = "idle"
    /\ sph = Sphere(ZERO, 0)
    /\ ray = Ray(ZERO, ZERO)
    /\ hitIn = Hit(INFINITY, ZERO)
    /\ light = ZERO
    /\ node = Sphere(ZERO, 0)
    /\ dist = 0
    /\ hitOut = Hit(INFINITY, ZERO)
    /\ shad = FALSE
    /\ color = 0
    /\ box = <<ZERO, ZERO>>

NoRun ==
    /\ n = 0 /\ ss = 0 /\ pc = "none"
    /\ x = 0 /\ y = 0 /\ dx = 0 /\ dy = 0 /\ g = 0
    /\ file = <<>> /\ trace = <<>>

NoScene == [kind |-> "none"]

\* Nothing is built and nothing was called.
InitCall ==
    /\ level = 0 /\ center = ZERO /\ radius = 0
    /\ scene = NoScene
    /\ NoRun
    /\ NoCall

Built == scene.kind # "none"

CallCreate ==
    /\ ~Built
    /\ op = "idle"
    /\ \E lv \in 1..MaxLevel, seed \in Seeds :
          /\ level' = lv
          /\ center' = seed[1]
          /\ radius' = seed[2]
          /\ scene' = create(lv, seed[1], seed[2])
    /\ UNCHANGED <<runVars, callVars>>

CallRaySphere ==
    /\ Built
    /\ op = "idle"
    /\ \E s \in TestSpheres(scene), o \in Origins, d \in Dirs :
          /\ sph' = s
          /\ ray' = Ray(o, d)
          /\ dist' = ray_sphere(s, Ray(o, d))
    /\ op' = "ray_sphere"
    /\ UNCHANGED <<level, center, radius, scene, runVars>>
    /\ UNCHANGED <<hitIn, light, node, hitOut, shad, color, box>>

CallIntersect ==
    /\ Built
    /\ op = "idle"
    /\ \E i \in HitsIn, o \in Origins, d \in Dirs :
          /\ hitIn' = i
          /\ ray' = Ray(o, d)
          /\ hitOut' = Scene_intersect(scene, i, Ray(o, d))
    /\ op' = "intersect"
    /\ UNCHANGED <<level, center, radius, scene, runVars>>
    /\ UNCHANGED <<sph, light, node, dist, shad, color, box>>

CallShadow ==
    /\ Built
    /\ op = "idle"
    /\ \E o \in Origins, d \in Dirs :
          /\ ray' = Ray(o, d)
          /\ shad' = Scene_shadow(scene, Ray(o, d))
    /\ op' = "shadow"
    /\ UNCHANGED <<level, center, radius, scene, runVars>>
    /\ UNCHANGED <<sph, hitIn, light, node, dist, hitOut, color, box>>

CallRayTrace ==
    /\ Built
    /\ op = "idle"
    /\ \E l \in Lights, o \in Origins, d \in Dirs :
          /\ light' = l
          /\ ray' = Ray(o, d)
          /\ color' = ray_trace(l, Ray(o, d), scene)
    /\ op' = "ray_trace"
    /\ UNCHANGED <<level, center, radius, scene, runVars>>
    /\ UNCHANGED <<sph, hitIn, node, dist, hitOut, shad, box>>

CallBoundingBox ==
    /\ Built
    /\ op = "idle"
    /\ \E t \in Nodes(scene) :
          /\ node' = t
          /\ box' = Scene_bounding_box(t)
    /\ op' = "bounding_box"
    /\ UNCHANGED <<level, center, radius, scene, runVars>>
    /\ UNCHANGED <<sph, ray, hitIn, light, dist, hitOut, shad, color>>

NextCall ==
    \/ CallCreate
    \/ CallRaySphere
    \/ CallIntersect
    \/ CallShadow
    \/ CallRayTrace
    \/ CallBoundingBox

SpecCall == InitCall /\ [][NextCall]_vars

\* -------------------------------------------------------------------- run

\* The rows without `.rev()`: top to bottom.
Rows_Forward(k) == [i \in 1..k |-> i - 1]

\* The rows `(0..n).rev()` and the columns `0..n` in iteration order, and the
\* sub-sample offsets `0..ss` of both inner loops.
Rows(k) == [i \in 1..k |-> k - i]

Cols(k) == [i \in 1..k |-> i - 1]

SubSamples(k) == [i \in 1..k |-> i - 1]

\* The position of loop value v in the iteration order seq.
IndexOf(seq, v) == CHOOSE i \in 1..Len(seq) : seq[i] = v

\* format!("P5\n{} {}\n255\n", n, n)
Header(k) == "P5\n" \o ToString(k) \o " " \o ToString(k) \o "\n255\n"

\* `v as u8` of a non-NaN f64: truncated toward zero, saturated to 0..255.
AsU8(v) ==
    IF v <= 0 THEN 0
    ELSE IF v \div Scale > 255 THEN 255 ELSE v \div Scale

RunLight == normalize(Vector3d(-Scale, -3 * Scale, 2 * Scale))

RunOrig == Vector3d(0, 0, -4 * Scale)

\* The camera ray of sub-sample (sdx, sdy) of pixel (px, py).
PixelRay(px, py, sdx, sdy) ==
    LET d == Vector3d(
                 px * Scale + FDiv(sdx * Scale, ss * Scale)
                     - FMul(n * Scale, Scale \div 2),
                 py * Scale + FDiv(sdy * Scale, ss * Scale)
                     - FMul(n * Scale, Scale \div 2),
                 n * Scale)
    IN  Ray(RunOrig, normalize(d))

Event(e, ex, ey, edx, edy) ==
    [ev |-> e, x |-> ex, y |-> ey, dx |-> edx, dy |-> edy]

\* run is entered with its three arguments and nothing built or written.
InitRun ==
    /\ n \in 1..MaxN
    /\ level \in 1..MaxLevel
    /\ ss \in 1..MaxSS
    /\ pc = "start"
    /\ center = ZERO /\ radius = 0
    /\ scene = NoScene
    /\ x = 0 /\ y = 0 /\ dx = 0 /\ dy = 0 /\ g = 0
    /\ file = <<>> /\ trace = <<>>
    /\ NoCall

\* Lines 297-308: build the scene, create the file, write the header and
\* enter the loops at the first pixel.
RunStart ==
    /\ pc = "start"
    /\ center' = Vector3d(0, -Scale, 0)
    /\ radius' = Scale
    /\ scene' = create(level, Vector3d(0, -Scale, 0), Scale)
    /\ file' = <<Header(n)>>
    /\ trace' = <<Event("header", 0, 0, 0, 0)>>
    /\ IF n > 0
       THEN /\ y' = Rows(n)[1]
            /\ x' = Cols(n)[1]
            /\ pc' = IF ss > 0 THEN "sample" ELSE "write"
       ELSE /\ UNCHANGED <<x, y>>
            /\ pc' = "done"
    /\ g' = 0 /\ dx' = 0 /\ dy' = 0
    /\ UNCHANGED <<level, n, ss, callVars>>

\* Lines 311-323: trace one sub-sample ray and step the dx/dy loops.
TraceSample ==
    /\ pc = "sample"
    /\ g' = g + ray_trace(RunLight, PixelRay(x, y, dx, dy), scene)
    /\ trace' = Append(trace, Event("ray", x, y, dx, dy))
    /\ LET i == IndexOf(SubSamples(ss), dx)
           j == IndexOf(SubSamples(ss), dy)
       IN  IF j < ss
           THEN /\ dy' = SubSamples(ss)[j + 1]
                /\ UNCHANGED <<dx, pc>>
           ELSE IF i < ss
           THEN /\ dx' = SubSamples(ss)[i + 1]
                /\ dy' = SubSamples(ss)[1]
                /\ UNCHANGED pc
           ELSE /\ pc' = "write"
                /\ UNCHANGED <<dx, dy>>
    /\ UNCHANGED <<level, center, radius, scene, n, ss, x, y, file, callVars>>

\* Lines 326-328: quantise the pixel, write its byte and step the x/y loops.
WritePixel ==
    /\ pc = "write"
    /\ LET sss == FMul(ss * Scale, ss * Scale)
           b   == AsU8(Scale \div 2 + FDiv(FMul(255 * Scale, g), sss))
       IN  file' = Append(file, <<b>>)
    /\ trace' = Append(trace, Event("pixel", x, y, 0, 0))
    /\ LET i == IndexOf(Cols(n), x)
           j == IndexOf(Rows(n), y)
       IN  IF i < n
           THEN /\ x' = Cols(n)[i + 1]
                /\ pc' = "sample"
                /\ UNCHANGED y
           ELSE IF j < n
           THEN /\ y' = Rows(n)[j + 1]
                /\ x' = Cols(n)[1]
                /\ pc' = "sample"
           ELSE /\ pc' = "done"
                /\ UNCHANGED <<x, y>>
    /\ g' = 0 /\ dx' = 0 /\ dy' = 0
    /\ UNCHANGED <<level, center, radius, scene, n, ss, callVars>>

Next ==
    \/ RunStart
    \/ TraceSample
    \/ WritePixel

Spec == InitRun /\ [][Next]_vars

\* ================================================================ claims

\* The leaf spheres of a tree, in traversal order.
RECURSIVE Leaves(_)
RECURSIVE LeavesOf(_, _)
Leaves(t) == IF t.kind = "Sphere" THEN <<t>> ELSE LeavesOf(t.objects, 1)

LeavesOf(objects, k) ==
    IF k > Len(objects) THEN <<>>
    ELSE Leaves(objects[k]) \o LeavesOf(objects, k + 1)

\* Sphere.intersect folded over the spheres[k..]: no bounding-sphere test.
RECURSIVE BruteForce(_, _, _, _)
BruteForce(spheres, k, out, r) ==
    IF k > Len(spheres) THEN out
    ELSE BruteForce(spheres, k + 1, Sphere_intersect(spheres[k], out, r), r)

Sentinel == Hit(INFINITY, ZERO)

\* C1: started from the sentinel hit, Group.intersect returns the lambda of
\* the brute-force fold of Sphere.intersect over all descendant spheres.
C1_CullingIsPureOptimisation ==
    (op = "intersect" /\ hitIn = Sentinel)
        => hitOut.lambda = BruteForce(Leaves(scene), 1, hitIn, ray).lambda

\* The ray's origin lies inside the bounding sphere of a nested group, and
\* the culled traversal returns a farther hit than the brute-force one.
C1_InsideNestedBound ==
    /\ op = "intersect" /\ hitIn = Sentinel /\ level = 3
    /\ hitOut.lambda > BruteForce(Leaves(scene), 1, hitIn, ray).lambda

\* The culled and the brute-force traversal agree whenever the ray's origin
\* lies outside the bounding sphere of every group of the tree.
C1_AgreesFromOutsideEveryBound ==
    (/\ op = "intersect" /\ hitIn = Sentinel
     /\ \A t \in Nodes(scene) :
           t.kind = "Group" =>
               length(VSub(t.bound.center, ray.orig)) > t.bound.radius)
        => hitOut.lambda = BruteForce(Leaves(scene), 1, hitIn, ray).lambda

\* C2: the box of every Group contains the box center -/+ radius of every
\* descendant leaf sphere, componentwise.
C2_BoxContainsLeaves ==
    (op = "bounding_box" /\ node.kind = "Group") =>
        LET ls == Leaves(node)
        IN  \A k \in 1..Len(ls) :
                /\ box[1].x <= ls[k].center.x - ls[k].radius
                /\ box[1].y <= ls[k].center.y - ls[k].radius
                /\ box[1].z <= ls[k].center.z - ls[k].radius
                /\ ls[k].center.x + ls[k].radius <= box[2].x
                /\ ls[k].center.y + ls[k].radius <= box[2].y
                /\ ls[k].center.z + ls[k].radius <= box[2].z

\* The box of a group that holds nested groups was computed.
C2_Witness ==
    /\ op = "bounding_box" /\ node.kind = "Group"
    /\ Len(Leaves(node)) > Len(node.objects)
    /\ box = Group_bounding_box(node.objects)

\* The vector from the ray's origin to the sphere's center.
ToCenter == VSub(sph.center, ray.orig)

\* The ray passes through the sphere's center: the center lies on the
\* half-line from the origin along the direction (an exact test).
ThroughCenter ==
    LET v == ToCenter
        d == ray.dir
    IN  /\ v.y * d.z - v.z * d.y = 0
        /\ v.z * d.x - v.x * d.z = 0
        /\ v.x * d.y - v.y * d.x = 0
        /\ v.x * d.x + v.y * d.y + v.z * d.z > 0

\* C3 as stated: through the center, ray_sphere is distance - radius.
C3_ThroughCenterAnyOrigin ==
    (op = "ray_sphere" /\ ThroughCenter)
        => dist < INFINITY /\ dist = length(ToCenter) - sph.radius

\* C3 amended: through the center from an origin strictly outside the sphere,
\* ray_sphere is finite and equals distance(origin, center) - radius.
C3_ThroughCenterFromOutside ==
    (op = "ray_sphere" /\ ThroughCenter /\ length(ToCenter) > sph.radius)
        => dist < INFINITY /\ dist = length(ToCenter) - sph.radius

C3_Witness ==
    /\ op = "ray_sphere" /\ ThroughCenter
    /\ length(ToCenter) > sph.radius
    /\ ray.dir.x # 0 /\ ray.dir.z # 0
    /\ dist = length(ToCenter) - sph.radius

\* C4: outside the sphere and pointing away, ray_sphere is +infinity; it is
\* +infinity exactly when disc < 0 or b + sqrt(disc) < 0, and otherwise it is
\* the non-negative b - d when that is positive, else b + d.
C4_RaySphereCases ==
    op = "ray_sphere" =>
        LET v    == ToCenter
            b    == dot(v, ray.dir)
            disc == FMul(b, b) - dot(v, v) + FMul(sph.radius, sph.radius)
            miss == disc < 0 \/ b + FSqrt(disc) < 0
        IN  /\ (length(v) > sph.radius /\ b < 0) => dist = INFINITY
            /\ dist = INFINITY <=> miss
            /\ ~miss => /\ dist >= 0
                         /\ dist = IF b - FSqrt(disc) > 0
                                    THEN b - FSqrt(disc) ELSE b + FSqrt(disc)

\* Outside, pointing away, with a non-negative discriminant: the far root
\* is behind the origin.
C4_Witness ==
    /\ op = "ray_sphere"
    /\ length(ToCenter) > sph.radius
    /\ dot(ToCenter, ray.dir) < 0
    /\ FMul(dot(ToCenter, ray.dir), dot(ToCenter, ray.dir))
          - dot(ToCenter, ToCenter) + FMul(sph.radius, sph.radius) >= 0
    /\ dist = INFINITY

\* What ray_trace meets on its way: the nearest hit of the ray, the dot
\* product g of its normal with the light, and whether the shadow ray from
\* the offset hit point toward -light is blocked.
Traced ==
    LET i == Scene_intersect(scene, Sentinel, ray)
        o == VAdd(VAdd(ray.orig, VScale(ray.dir, i.lambda)),
                  VScale(i.normal, FSqrt(EPSILON)))
    IN  IF i.lambda = INFINITY
        THEN [hit |-> FALSE, g |-> 0, blocked |-> FALSE]
        ELSE [hit |-> TRUE,
              g |-> dot(i.normal, light),
              blocked |-> Scene_shadow(scene, Ray(o, VSub(ZERO, light)))]

\* C5: ray_trace is 0 when nothing is hit, when g >= 0, and when g < 0 but
\* the shadow ray is blocked; otherwise it is -g, which is positive.
C5_RayTraceCases ==
    op = "ray_trace" =>
        LET t == Traced
        IN  IF ~t.hit THEN color = 0
            ELSE IF t.g >= 0 THEN color = 0
            ELSE IF t.blocked THEN color = 0
            ELSE color = -t.g /\ color > 0

\* A surface facing the light whose shadow ray is blocked.
C5_Witness ==
    /\ op = "ray_trace"
    /\ LET t == Traced IN t.hit /\ t.g < 0 /\ t.blocked
    /\ color = 0

\* The other cases of C5: lit, nothing hit, facing away from the light.
C5_WitnessLit ==
    /\ op = "ray_trace"
    /\ LET t == Traced IN t.hit /\ t.g < 0 /\ ~t.blocked
    /\ color > 0

C5_WitnessMiss == op = "ray_trace" /\ ~Traced.hit

C5_WitnessFacingAway ==
    op = "ray_trace" /\ LET t == Traced IN t.hit /\ t.g >= 0

\* The scenario of C6: the level-1 scene of run and the ray from (0, 0, -4)
\* along +z.
TestScene ==
    level = 1 /\ center = Vector3d(0, -Scale, 0) /\ radius = Scale

TestRay == Ray(Vector3d(0, 0, -4 * Scale), Vector3d(0, 0, Scale))

\* C6 as stated: the test ray hits; the light along +z gives 0; the light
\* along -z gives a positive value of at most 1.
C6_FlippedLightIsPositive ==
    (TestScene /\ ray = TestRay) =>
        /\ op = "intersect" /\ hitIn = Sentinel => hitOut.lambda < INFINITY
        /\ op = "ray_trace" /\ light = Vector3d(0, 0, Scale) => color = 0
        /\ op = "ray_trace" /\ light = Vector3d(0, 0, -Scale)
              => color > 0 /\ color <= Scale

\* C6 amended: the test ray hits (it grazes the sphere at lambda = 4 with the
\* normal (0, 1, 0)); the light along +z gives 0, and so does the light
\* along -z, the normal being perpendicular to both.
C6_GrazingHitIsBlack ==
    (TestScene /\ ray = TestRay) =>
        /\ op = "intersect" /\ hitIn = Sentinel
              => hitOut = Hit(4 * Scale, Vector3d(0, Scale, 0))
        /\ op = "ray_trace" /\ light = Vector3d(0, 0, Scale) => color = 0
        /\ op = "ray_trace" /\ light = Vector3d(0, 0, -Scale) => color = 0

C6_Witness ==
    /\ TestScene /\ ray = TestRay
    /\ op = "ray_trace" /\ light = Vector3d(0, 0, -Scale)
    /\ Traced.hit /\ Traced.g = 0
    /\ color = 0

\* The nesting depth of a tree and the number of its spheres.
RECURSIVE Depth(_)
RECURSIVE DepthOf(_, _)
Depth(t) == IF t.kind = "Sphere" THEN 1 ELSE 1 + DepthOf(t.objects, 1)

DepthOf(objects, k) ==
    IF k > Len(objects) THEN 0
    ELSE FMax(Depth(objects[k]), DepthOf(objects, k + 1))

RECURSIVE Pow4(_)
Pow4(k) == IF k = 0 THEN 1 ELSE 4 * Pow4(k - 1)

\* The tree C7 describes for (lv, c, r): the sphere alone at level 1, else
\* the central sphere followed by the four subtrees at c + (dx, 1, dz) * rn
\* with radius r / 2, dx and dz in {-1, +1}.
RECURSIVE Flake(_, _, _)
Flake(lv, c, r) ==
    IF lv = 1 THEN Sphere(c, r)
    ELSE LET rn == FDiv(FMul(3 * Scale, r), FSqrt(12 * Scale))
             at(ddx, ddz) ==
                 Vector3d(c.x + FMul(ddx * Scale, rn),
                          c.y + FMul(Scale, rn),
                          c.z + FMul(ddz * Scale, rn))
             sub(ddx, ddz) == Flake(lv - 1, at(ddx, ddz), FMul(r, Scale \div 2))
             kids == <<Sphere(c, r),
                       sub(-1, -1), sub(1, -1), sub(-1, 1), sub(1, 1)>>
         IN  [kind |-> "Group", objects |-> kids]

\* A tree without its bounding spheres.
RECURSIVE Shape(_)
Shape(t) ==
    IF t.kind = "Sphere" THEN t
    ELSE [kind |-> "Group",
          objects |-> [k \in 1..Len(t.objects) |-> Shape(t.objects[k])]]

\* C7: create(level, c, r) returns the bare sphere at level 1 and otherwise
\* the group of the central sphere and four subtrees; its depth is level and
\* it holds (4^level - 1) / 3 spheres.
C7_CreateShape ==
    Built =>
        /\ Shape(scene) = Flake(level, center, radius)
        /\ Depth(scene) = level
        /\ 3 * Len(Leaves(scene)) = Pow4(level) - 1

C7_Witness ==
    /\ Built /\ level >= 3
    /\ scene.kind = "Group" /\ Len(scene.objects) = 5
    /\ scene.objects[2].kind = "Group"
    /\ Depth(scene) = level

\* The running best hits of the fold over objects[k..]: out before child k,
\* then after each further child.
RECURSIVE RunningHits(_, _, _, _)
RunningHits(objects, k, out, r) ==
    IF k > Len(objects) THEN <<out>>
    ELSE <<out>> \o RunningHits(objects, k + 1,
                                Scene_intersect(objects[k], out, r), r)

\* C9: intersect returns its input hit unchanged or a hit with a strictly
\* smaller lambda; the running best lambda never increases along the fold
\* over a group's children; the sentinel comes back when nothing is hit.
C9_IntersectNeverWorsens ==
    op = "intersect" =>
        /\ hitOut = hitIn \/ hitOut.lambda < hitIn.lambda
        /\ scene.kind = "Group" =>
              LET rs == RunningHits(scene.objects, 1, hitIn, ray)
              IN  \A k \in 1..Len(scene.objects) :
                      rs[k + 1] = rs[k] \/ rs[k + 1].lambda < rs[k].lambda
        /\ LET ls == Leaves(scene)
           IN  (/\ hitIn = Sentinel
                /\ \A k \in 1..Len(ls) : ray_sphere(ls[k], ray) = INFINITY)
                  => hitOut = Sentinel

\* A group improved a finite running hit.
C9_Witness ==
    /\ op = "intersect" /\ scene.kind = "Group"
    /\ hitIn.lambda < INFINITY
    /\ hitOut.lambda < hitIn.lambda

\* A finite running hit came back unchanged although the ray hits a sphere.
C9_WitnessUnchanged ==
    /\ op = "intersect" /\ hitIn.lambda < INFINITY /\ hitOut = hitIn
    /\ \E k \in 1..Len(Leaves(scene)) :
          ray_sphere(Leaves(scene)[k], ray) < INFINITY

\* C10: shadow is true exactly when intersect from the sentinel returns a
\* finite lambda; for a single sphere, exactly when ray_sphere is finite.
C10_ShadowIffFiniteHit ==
    op = "shadow" =>
        /\ shad <=> Scene_intersect(scene, Sentinel, ray).lambda < INFINITY
        /\ scene.kind = "Sphere" => (shad <=> ray_sphere(scene, ray) < INFINITY)

\* A group casts a shadow on a ray that starts inside a nested bounding sphere.
C10_Witness ==
    /\ op = "shadow" /\ level >= 3 /\ shad
    /\ \E k \in 2..Len(scene.objects) :
          /\ ray_sphere(scene.objects[k].bound, ray) < INFINITY
          /\ length(VSub(scene.objects[k].bound.center, ray.orig))
                < scene.objects[k].bound.radius
          /\ Scene_shadow(scene.objects[k], ray)

\* The far root is exactly 0: the ray leaves from the sphere's surface.
C10_WitnessOnSurface ==
    /\ op = "shadow" /\ scene.kind = "Sphere" /\ shad
    /\ ray_sphere(scene, ray) = 0

\* The events C8 prescribes for an n by n image with ss by ss sub-samples:
\* the header, then for each pixel, rows from n - 1 down to 0 and columns from
\* 0 up to n - 1, its ss * ss rays followed by its byte.
PixelX(p) == p % n

PixelY(p) == (n - 1) - (p \div n)

Expected ==
    [k \in 1..(1 + n * n * (ss * ss + 1)) |->
        IF k = 1 THEN <<"header", 0, 0>>
        ELSE LET p == (k - 2) \div (ss * ss + 1)
                 q == (k - 2) % (ss * ss + 1)
             IN  <<IF q < ss * ss THEN "ray" ELSE "pixel", PixelX(p), PixelY(p)>>]

\* The pixel events among the first k events.
RECURSIVE PixelsIn(_)
PixelsIn(k) ==
    IF k = 0 THEN 0
    ELSE PixelsIn(k - 1) + (IF trace[k].ev = "pixel" THEN 1 ELSE 0)

\* C8: the header is written first; the pixel bytes follow one per pixel,
\* rows from n - 1 down to 0 and columns from 0 up to n - 1, each after the
\* ss * ss rays of its pixel and before any ray of the next; a finished run
\* has written exactly n * n pixel bytes.
C8_OutputOrder ==
    pc # "start" =>
        /\ Len(trace) <= Len(Expected)
        /\ \A k \in 1..Len(trace) :
              <<trace[k].ev, trace[k].x, trace[k].y>> = Expected[k]
        /\ \A k \in 1..Len(trace) : \A j \in 1..(k - 1) :
              (trace[k].ev = "ray" /\ trace[j].ev = "ray") =>
                  <<trace[k].x, trace[k].y, trace[k].dx, trace[k].dy>>
                      # <<trace[j].x, trace[j].y, trace[j].dx, trace[j].dy>>
        /\ file[1] = Header(n)
        /\ Len(file) = 1 + PixelsIn(Len(trace))
        /\ \A k \in 2..Len(file) : Len(file[k]) = 1 /\ file[k][1] \in 0..255
        /\ pc = "done" => Len(file) = 1 + n * n /\ Len(trace) = Len(Expected)

\* A supersampled image of several rows is finished and not all black.
C8_Witness ==
    /\ pc = "done" /\ n >= 3 /\ ss >= 2
    /\ Len(file) = 1 + n * n
    /\ trace[Len(trace)] = Event("pixel", n - 1, 0, 0, 0)
    /\ \E k \in 2..Len(file) : file[k][1] > 0

====
